---- MODULE Spec2Model ----
(***************************************************************************)
(* Model of card_rl/env.py: CardGameEnv, a four-seat trick-taking          *)
(* environment.  Seat 0 is the agent; seats 1-3 play random cards and      *)
(* follow the lead suit when they can.  One step call resolves one trick.  *)
(*                                                                         *)
(* random.Random is modelled as a deterministic generator over a small     *)
(* state space: the value drawn depends only on the generator state, and   *)
(* every draw advances the state.                                          *)
(***************************************************************************)
EXTENDS Integers, Sequences, FiniteSets, TLC

\* ---------------------------------------------------------------- bounds
RngMod == 5          \* number of generator states
MaxSeed == 1         \* reset(seed) is called with seed in 0..MaxSeed or None
FreeEarly == 1       \* the agent plays any card of its hand in the first FreeEarly tricks
FreeLate == 2        \* ... and again once its hand holds at most FreeLate cards
MaxBad == 2          \* number of distinct invalid actions tried in a state

\* ------------------------------------------------------ program constants
NumRanks == 13
NumSuits == 4
NumSeats == 4
TenRank == 8

NumCards == NumSuits * NumRanks
Seats == 0 .. (NumSeats - 1)
Cards == 0 .. (NumCards - 1)
Teams == {0, 1}

\* ------------------------------------------------------------ card codec
suit_of(card_id) == card_id \div NumRanks

rank_of(card_id) == card_id % NumRanks

\* variant: the id is built rank-major
encode_card_RankMajor(rank, suit) == rank * NumSuits + suit

encode_card(rank, suit) == suit * NumRanks + rank

decode_card(card_id) == <<rank_of(card_id), suit_of(card_id)>>

\* ------------------------------------------------------- list operations
\* Python: x in lst
Contains(lst, x) == \E i \in 1 .. Len(lst) : lst[i] = x

\* Python: lst.remove(x), which deletes the first occurrence
Remove(lst, x) ==
  LET i == CHOOSE k \in 1 .. Len(lst) :
             lst[k] = x /\ \A m \in 1 .. (k - 1) : lst[m] # x
  IN SubSeq(lst, 1, i - 1) \o SubSeq(lst, i + 1, Len(lst))

\* Python: [c for c in lst if suit_of(c) == suit]
RECURSIVE SuitCards(_, _)
SuitCards(lst, suit) ==
  IF lst = <<>> THEN <<>>
  ELSE (IF suit_of(Head(lst)) = suit THEN <<Head(lst)>> ELSE <<>>)
       \o SuitCards(Tail(lst), suit)

\* Python: min(lst, key=rank_of), the first element of minimal rank
MinByRank(lst) ==
  LET i == CHOOSE k \in 1 .. Len(lst) :
             /\ \A m \in 1 .. Len(lst) : rank_of(lst[k]) <= rank_of(lst[m])
             /\ \A m \in 1 .. (k - 1) : rank_of(lst[m]) > rank_of(lst[k])
  IN lst[i]

\* Python: max(lst, key=rank_of), the first element of maximal rank
MaxByRank(lst) ==
  LET i == CHOOSE k \in 1 .. Len(lst) :
             /\ \A m \in 1 .. Len(lst) : rank_of(lst[k]) >= rank_of(lst[m])
             /\ \A m \in 1 .. (k - 1) : rank_of(lst[m]) < rank_of(lst[k])
  IN lst[i]

\* Python: sorted(lst)
Sorted(lst) == SortSeq(lst, LAMBDA a, b : a < b)

\* ------------------------------------------------------------- generator
\* rng.seed(seed)
RngSeed(seed) == (seed * 5 + 2) % RngMod

\* the generator state after one draw
RngNext(s) == (s + 1) % RngMod

\* rng._randbelow(n): the value drawn in state s, in 0..n-1
RandBelow(s, n) == (((s * s * 5 + s * 3 + 1) * (n * n + 3 * n + 7)) \div 4) % n

\* rng.choice(lst)
Choice(s, lst) == lst[RandBelow(s, Len(lst)) + 1]

\* rng.shuffle(deck): for i in reversed(range(1, len)): j = randbelow(i+1); swap
RECURSIVE ShuffleFrom(_, _, _)
ShuffleFrom(deck, s, i) ==
  IF i < 1 THEN [deck |-> deck, rng |-> s]
  ELSE LET j == RandBelow(s, i + 1)
           swapped == [deck EXCEPT ![i + 1] = deck[j + 1], ![j + 1] = deck[i + 1]]
       IN ShuffleFrom(swapped, RngNext(s), i - 1)

Shuffle(deck, s) == ShuffleFrom(deck, s, Len(deck) - 1)

\* variant: the slices start 12 apart and overlap
Deal_Overlap(deck) ==
  [i \in Seats |->
     Sorted(SubSeq(deck, i * (NumRanks - 1) + 1, i * (NumRanks - 1) + NumRanks))]

\* [sorted(deck[i*13:(i+1)*13]) for i in range(4)]
Deal(deck) ==
  [i \in Seats |-> Sorted(SubSeq(deck, i * NumRanks + 1, (i + 1) * NumRanks))]

\* deck = list(range(52)); rng.shuffle(deck); self.hands = [...], for each
\* generator state: the hands dealt and the generator state after the shuffle
DealFrom ==
  [s \in 0 .. (RngMod - 1) |->
     LET sh == Shuffle([i \in 1 .. NumCards |-> i - 1], s)
     IN [hands |-> Deal(sh.deck), rng |-> sh.rng]]

\* ----------------------------------------------------------------- state
VARIABLES
  rng,             \* self.rng, the generator state
  hands,           \* self.hands: seat -> list of card ids
  tricks_won,      \* self.tricks_won: team -> count
  tens_won,        \* self.tens_won: team -> count
  current_trick,   \* self.current_trick: <<>> for None, else <<TrickState>>
  current_player,  \* self.current_player
  done,            \* self.done
  dealt,           \* self._dealt
  rounds_played,   \* self._rounds_played
  call,            \* the last call made on the environment and what it returned
  nsteps,          \* number of step calls that returned since the last reset
  failures,        \* the errors step calls have raised since the last reset
  twin             \* a second CardGameEnv object and its last call, <<>> if none

vars == <<rng, hands, tricks_won, tens_won, current_trick, current_player,
          done, dealt, rounds_played, call, nsteps, failures, twin>>

\* the fields of the environment object, without the generator
envState == <<hands, tricks_won, tens_won, current_trick, current_player,
              done, dealt, rounds_played>>

\* TrickState(leader=0, plays=[])
NewTrick == [leader |-> 0, plays |-> <<>>]

\* ------------------------------------------------------------ _play_card
\* variant: the suit to follow is taken from the previous play, not the first
PlayCard_FollowPrevious(st, pid, card) ==
  LET hand1  == Remove(st.hands[pid], card)
      plays1 == Append(st.plays, <<pid, card>>)
      lead_suit == suit_of(plays1[IF Len(plays1) > 1 THEN Len(plays1) - 1 ELSE 1][2])
      led_suit_cards == SuitCards(hand1, lead_suit)
      corrected == /\ Len(plays1) > 1
                   /\ suit_of(card) # lead_suit
                   /\ led_suit_cards # <<>>
      follow_card == MinByRank(led_suit_cards)
      hand2  == IF corrected THEN Remove(Append(hand1, card), follow_card)
                ELSE hand1
      plays2 == IF corrected
                THEN Append(SubSeq(plays1, 1, Len(plays1) - 1), <<pid, follow_card>>)
                ELSE plays1
  IN [current_player |-> (st.current_player + 1) % NumSeats,
      hands |-> [st.hands EXCEPT ![pid] = hand2],
      plays |-> plays2,
      trail |-> Append(st.trail, [pid |-> pid, card |-> card,
                                  printed |-> IF corrected THEN <<plays1, plays2>>
                                              ELSE <<plays1>>])]

\* variant: a corrected card is not put back into the hand
PlayCard_NoPutBack(st, pid, card) ==
  LET hand1  == Remove(st.hands[pid], card)
      plays1 == Append(st.plays, <<pid, card>>)
      lead_suit == suit_of(plays1[1][2])
      led_suit_cards == SuitCards(hand1, lead_suit)
      corrected == /\ Len(plays1) > 1
                   /\ suit_of(card) # lead_suit
                   /\ led_suit_cards # <<>>
      follow_card == MinByRank(led_suit_cards)
      hand2  == IF corrected THEN Remove(hand1, follow_card)
                ELSE hand1
      plays2 == IF corrected
                THEN Append(SubSeq(plays1, 1, Len(plays1) - 1), <<pid, follow_card>>)
                ELSE plays1
  IN [current_player |-> (st.current_player + 1) % NumSeats,
      hands |-> [st.hands EXCEPT ![pid] = hand2],
      plays |-> plays2,
      trail |-> Append(st.trail, [pid |-> pid, card |-> card,
                                  printed |-> IF corrected THEN <<plays1, plays2>>
                                              ELSE <<plays1>>])]

\* st = [current_player, hands, plays, trail]; plays is current_trick.plays,
\* trail has for each call made so far its arguments and the trick as
\* _print_current_trick showed it, once or, after a correction, twice
PlayCard(st, pid, card) ==
  LET hand1  == Remove(st.hands[pid], card)
      plays1 == Append(st.plays, <<pid, card>>)
      lead_suit == suit_of(plays1[1][2])
      led_suit_cards == SuitCards(hand1, lead_suit)
      corrected == /\ Len(plays1) > 1
                   /\ suit_of(card) # lead_suit
                   /\ led_suit_cards # <<>>
      follow_card == MinByRank(led_suit_cards)
      hand2  == IF corrected THEN Remove(Append(hand1, card), follow_card)
                ELSE hand1
      plays2 == IF corrected
                THEN Append(SubSeq(plays1, 1, Len(plays1) - 1), <<pid, follow_card>>)
                ELSE plays1
  IN [current_player |-> (st.current_player + 1) % NumSeats,
      hands |-> [st.hands EXCEPT ![pid] = hand2],
      plays |-> plays2,
      trail |-> Append(st.trail, [pid |-> pid, card |-> card,
                                  printed |-> IF corrected THEN <<plays1, plays2>>
                                              ELSE <<plays1>>])]

\* ------------------------------------------------- opponents (step 94-101)
\* variant: the draw is from the whole hand
OpponentCard_AnyCard(hand, lead_suit, s) == Choice(s, hand)

\* the card seat pid draws: a random card of the lead suit, else a random card
OpponentCard(hand, lead_suit, s) ==
  LET same_suit_cards == SuitCards(hand, lead_suit)
  IN IF same_suit_cards # <<>> THEN Choice(s, same_suit_cards)
     ELSE Choice(s, hand)

RECURSIVE OpponentsPlay(_, _, _)
\* variant: the loop ends before seat 3
OpponentsPlay_SkipLast(st, s, pid) ==
  IF pid > 2 THEN [rng |-> s, st |-> st]
  ELSE IF st.hands[pid] = <<>> THEN OpponentsPlay(st, s, pid + 1)
  ELSE LET lead_suit == suit_of(st.plays[1][2])
           card == OpponentCard(st.hands[pid], lead_suit, s)
       IN OpponentsPlay(PlayCard(st, pid, card), RngNext(s), pid + 1)

\* variant: the loop runs over seats 3, 2, 1
OpponentsPlay_Reversed(st, s, pid) ==
  IF pid > 3 THEN [rng |-> s, st |-> st]
  ELSE IF st.hands[4 - pid] = <<>> THEN OpponentsPlay(st, s, pid + 1)
  ELSE LET lead_suit == suit_of(st.plays[1][2])
           card == OpponentCard(st.hands[4 - pid], lead_suit, s)
       IN OpponentsPlay(PlayCard(st, 4 - pid, card), RngNext(s), pid + 1)

\* for pid in [1, 2, 3]: skip an empty hand, else draw a card and play it
OpponentsPlay(st, s, pid) ==
  IF pid > 3 THEN [rng |-> s, st |-> st]
  ELSE IF st.hands[pid] = <<>> THEN OpponentsPlay(st, s, pid + 1)
  ELSE LET lead_suit == suit_of(st.plays[1][2])
           card == OpponentCard(st.hands[pid], lead_suit, s)
       IN OpponentsPlay(PlayCard(st, pid, card), RngNext(s), pid + 1)

\* --------------------------------------------------- _end_trick_and_score
\* variant: on equal rank the last play wins
TrickWinner_LastMax(plays) ==
  LET i == CHOOSE k \in 1 .. Len(plays) :
             /\ \A m \in 1 .. Len(plays) : rank_of(plays[k][2]) >= rank_of(plays[m][2])
             /\ \A m \in (k + 1) .. Len(plays) : rank_of(plays[m][2]) < rank_of(plays[k][2])
  IN plays[i][1]

\* max(plays, key=rank of the card): the seat of the first play of maximal rank
TrickWinner(plays) ==
  LET i == CHOOSE k \in 1 .. Len(plays) :
             /\ \A m \in 1 .. Len(plays) : rank_of(plays[k][2]) >= rank_of(plays[m][2])
             /\ \A m \in 1 .. (k - 1) : rank_of(plays[m][2]) < rank_of(plays[k][2])
  IN plays[i][1]

TeamOf(winner_pid) == IF winner_pid \in {0, 2} THEN 0 ELSE 1

\* variant: only the winning card is looked at
TensInTrick_WinnerOnly(plays) ==
  IF \E i \in 1 .. Len(plays) :
        /\ rank_of(plays[i][2]) = TenRank
        /\ \A m \in 1 .. Len(plays) : rank_of(plays[m][2]) <= TenRank
  THEN 1 ELSE 0

\* variant: the leader's card is not counted
TensInTrick_SkipLeader(plays) ==
  Cardinality({i \in 2 .. Len(plays) : rank_of(plays[i][2]) = TenRank})

RECURSIVE TensInTrick(_)
TensInTrick(plays) ==
  IF plays = <<>> THEN 0
  ELSE (IF rank_of(Head(plays)[2]) = TenRank THEN 1 ELSE 0) + TensInTrick(Tail(plays))

\* variant: a lost trick is worth nothing
compute_reward_NoPenalty(winner_team) == IF winner_team = 0 THEN 1 ELSE 0

\* default reward: +1.0 for the agent's team, -1.0 otherwise
compute_reward(winner_team) == IF winner_team = 0 THEN 1 ELSE -1

\* variant: the episode ends one card early
HandExhausted_OneLeft(hand) == Len(hand) <= 1

\* the episode ends when the agent's hand is empty
HandExhausted(hand) == Len(hand) = 0

\* variant: the tens of the trick are taken off the team's count
EndTrickAndScore_TensDeducted(sc, plays, hand0) ==
  LET winner_team == TeamOf(TrickWinner(plays))
      tens_in_trick == TensInTrick(plays)
  IN [done |-> IF HandExhausted(hand0) THEN TRUE ELSE sc.done,
      reward |-> compute_reward(winner_team),
      rounds_played |-> sc.rounds_played + 1,
      tens_won |-> IF tens_in_trick # 0
                   THEN [sc.tens_won EXCEPT ![winner_team] = @ - tens_in_trick]
                   ELSE sc.tens_won,
      tricks_won |-> [sc.tricks_won EXCEPT ![winner_team] = @ + 1]]

\* sc = [tricks_won, tens_won, rounds_played, done]
EndTrickAndScore(sc, plays, hand0) ==
  LET winner_team == TeamOf(TrickWinner(plays))
      tens_in_trick == TensInTrick(plays)
  IN [done |-> IF HandExhausted(hand0) THEN TRUE ELSE sc.done,
      reward |-> compute_reward(winner_team),
      rounds_played |-> sc.rounds_played + 1,
      tens_won |-> IF tens_in_trick # 0
                   THEN [sc.tens_won EXCEPT ![winner_team] = @ + tens_in_trick]
                   ELSE sc.tens_won,
      tricks_won |-> [sc.tricks_won EXCEPT ![winner_team] = @ + 1]]

_is_trick_complete(trick) == trick # <<>> /\ Len(trick[1].plays) = 4

\* ------------------------------------------------------------------ step
\* variant: one error for both refusals
StepOutcome_OneError(d, hand0, action) ==
  IF d \/ ~Contains(hand0, action) THEN "EpisodeFinished" ELSE "ok"

\* variant: the hand is checked before done
StepOutcome_HandFirst(d, hand0, action) ==
  IF ~Contains(hand0, action) THEN "InvalidAction"
  ELSE IF d THEN "EpisodeFinished"
  ELSE "ok"

\* variant: an empty hand counts as a finished episode
StepOutcome_EmptyHandFinished(d, hand0, action) ==
  IF d \/ hand0 = <<>> THEN "EpisodeFinished"
  ELSE IF ~Contains(hand0, action) THEN "InvalidAction"
  ELSE "ok"

\* the two checks at the head of step, in their order
StepOutcome(d, hand0, action) ==
  IF d THEN "EpisodeFinished"
  ELSE IF ~Contains(hand0, action) THEN "InvalidAction"
  ELSE "ok"

\* variant: an invalid action ends the episode
DoneAfterRaise_Fatal(d, outcome) == d \/ outcome = "InvalidAction"

\* self.done once step has raised: the raise statements assign nothing
DoneAfterRaise(d, outcome) == d

\* what a call returned or raised: the operation, its argument, "ok" or the
\* error, the observation (<<>> when the call raised), and for step the
\* reward, the terminated flag, the trick resolved and the _play_card calls
Ret(op, arg, result, reward, terminated, trick, obs, trail) ==
  [arg |-> arg, obs |-> obs, op |-> op, result |-> result, reward |-> reward,
   terminated |-> terminated, trail |-> trail, trick |-> trick]

\* variant: remaining_tricks counts the cards played
_obs_CardsPlayed(e) ==
  [current_player |-> e.current_player,
   current_trick |-> IF e.current_trick # <<>> THEN e.current_trick[1].plays ELSE <<>>,
   hand |-> Sorted(e.hands[0]),
   remaining_tricks |-> NumRanks - Len(e.hands[0]),
   tens_won |-> e.tens_won,
   tricks_won |-> e.tricks_won,
   trick_leader |-> IF e.current_trick # <<>> THEN <<e.current_trick[1].leader>>
                    ELSE <<>>]

\* _obs(): the observation of environment e; trick_leader is <<>> for None
_obs(e) ==
  [current_player |-> e.current_player,
   current_trick |-> IF e.current_trick # <<>> THEN e.current_trick[1].plays ELSE <<>>,
   hand |-> Sorted(e.hands[0]),
   remaining_tricks |-> Len(e.hands[0]),
   tens_won |-> e.tens_won,
   tricks_won |-> e.tricks_won,
   trick_leader |-> IF e.current_trick # <<>> THEN <<e.current_trick[1].leader>>
                    ELSE <<>>]

\* the environment object as a record of its fields
Env ==
  [current_player |-> current_player, current_trick |-> current_trick,
   dealt |-> dealt, done |-> done, hands |-> hands, rng |-> rng,
   rounds_played |-> rounds_played, tens_won |-> tens_won,
   tricks_won |-> tricks_won]

\* step(action) on environment e: [env |-> the environment afterwards,
\* ret |-> what the call returned or raised]
StepResult(e, action) ==
  LET outcome == StepOutcome(e.done, e.hands[0], action)
  IN IF outcome # "ok"
     THEN [env |-> [e EXCEPT !.done = DoneAfterRaise(e.done, outcome)],
           ret |-> Ret("step", <<action>>, outcome, 0, FALSE, <<>>, <<>>, <<>>)]
     ELSE
       LET fresh == e.current_trick = <<>> \/ Len(e.current_trick[1].plays) = 4
           trick0 == IF fresh THEN NewTrick ELSE e.current_trick[1]
           cp0 == IF fresh THEN 0 ELSE e.current_player
       IN
       CHOOSE res \in
         {LET st1 == CHOOSE x \in {PlayCard([current_player |-> cp0,
                                             hands |-> e.hands,
                                             plays |-> trick0.plays,
                                             trail |-> <<>>], 0, action)} : TRUE
              r == CHOOSE x \in {OpponentsPlay(st1, e.rng, 1)} : TRUE
              sc == CHOOSE x \in {EndTrickAndScore(
                                    [done |-> e.done, rounds_played |-> e.rounds_played,
                                     tens_won |-> e.tens_won, tricks_won |-> e.tricks_won],
                                    r.st.plays, r.st.hands[0])} : TRUE
              st2 == r.st
              trick2 == <<[leader |-> trick0.leader, plays |-> st2.plays]>>
              scored == [current_player |-> 0, current_trick |-> <<NewTrick>>,
                         dealt |-> e.dealt, done |-> sc.done,
                         hands |-> st2.hands, rng |-> r.rng,
                         rounds_played |-> sc.rounds_played,
                         tens_won |-> sc.tens_won, tricks_won |-> sc.tricks_won]
              unscored == [current_player |-> st2.current_player,
                           current_trick |-> trick2,
                           dealt |-> e.dealt, done |-> e.done,
                           hands |-> st2.hands, rng |-> r.rng,
                           rounds_played |-> e.rounds_played,
                           tens_won |-> e.tens_won, tricks_won |-> e.tricks_won]
          IN IF _is_trick_complete(trick2)
             THEN [env |-> scored,
                   ret |-> Ret("step", <<action>>, "ok", sc.reward, sc.done,
                               st2.plays, <<_obs(scored)>>, st2.trail)]
             ELSE [env |-> unscored,
                   ret |-> Ret("step", <<action>>, "ok", 0, e.done,
                               <<>>, <<_obs(unscored)>>, st2.trail)]} : TRUE

\* ----------------------------------------------------------------- reset
\* variant: reset forgets to clear done
ResetResult_KeepDone(e, seed) ==
  LET s0 == IF seed # <<>> THEN RngSeed(seed[1]) ELSE e.rng
      sh == DealFrom[s0]
      env == [current_player |-> 0, current_trick |-> <<NewTrick>>,
              dealt |-> TRUE, done |-> e.done,
              hands |-> sh.hands, rng |-> sh.rng,
              rounds_played |-> 0,
              tens_won |-> [t \in Teams |-> 0], tricks_won |-> [t \in Teams |-> 0]]
  IN [env |-> env,
      ret |-> Ret("reset", seed, "ok", 0, FALSE, <<>>, <<_obs(env)>>, <<>>)]

\* variant: the seed is not used
ResetResult_IgnoreSeed(e, seed) ==
  LET sh == DealFrom[e.rng]
      env == [current_player |-> 0, current_trick |-> <<NewTrick>>,
              dealt |-> TRUE, done |-> FALSE,
              hands |-> sh.hands, rng |-> sh.rng,
              rounds_played |-> 0,
              tens_won |-> [t \in Teams |-> 0], tricks_won |-> [t \in Teams |-> 0]]
  IN [env |-> env,
      ret |-> Ret("reset", seed, "ok", 0, FALSE, <<>>, <<_obs(env)>>, <<>>)]

\* reset(seed) on environment e; seed is <<>> for None, else <<n>>
ResetResult(e, seed) ==
  LET s0 == IF seed # <<>> THEN RngSeed(seed[1]) ELSE e.rng
      sh == DealFrom[s0]
      env == [current_player |-> 0, current_trick |-> <<NewTrick>>,
              dealt |-> TRUE, done |-> FALSE,
              hands |-> sh.hands, rng |-> sh.rng,
              rounds_played |-> 0,
              tens_won |-> [t \in Teams |-> 0], tricks_won |-> [t \in Teams |-> 0]]
  IN [env |-> env,
      ret |-> Ret("reset", seed, "ok", 0, FALSE, <<>>, <<_obs(env)>>, <<>>)]

\* the environment's variables take the fields of e
EnvBecomes(e) ==
  /\ rng' = e.rng
  /\ hands' = e.hands
  /\ tricks_won' = e.tricks_won
  /\ tens_won' = e.tens_won
  /\ current_trick' = e.current_trick
  /\ current_player' = e.current_player
  /\ done' = e.done
  /\ dealt' = e.dealt
  /\ rounds_played' = e.rounds_played

Step(action) ==
  \E res \in {StepResult(Env, action)} :
     /\ EnvBecomes(res.env)
     /\ call' = res.ret
     /\ nsteps' = IF res.ret.result = "ok" THEN nsteps + 1 ELSE nsteps
     /\ failures' = IF res.ret.result = "ok" THEN failures
                    ELSE failures \cup {res.ret.result}

Reset(seed) ==
  LET res == ResetResult(Env, seed) IN
     /\ EnvBecomes(res.env)
     /\ call' = res.ret
     /\ nsteps' = 0
     /\ failures' = {}

\* ---------------------------------------------------------------- inputs
\* the cards the agent submits: any card of its hand early and late in the
\* episode, in between the card run_highest.py picks
AgentCards ==
  LET hand == hands[0]
  IN IF hand = <<>> THEN {}
     ELSE IF rounds_played < FreeEarly \/ Len(hand) <= FreeLate
          THEN {hand[i] : i \in 1 .. Len(hand)}
          ELSE {MaxByRank(Sorted(hand))}

\* the n highest ids from c down that are not in hand
RECURSIVE HighestOut(_, _, _)
HighestOut(hand, c, n) ==
  IF n = 0 \/ c < 0 THEN {}
  ELSE IF Contains(hand, c) THEN HighestOut(hand, c - 1, n)
  ELSE {c} \cup HighestOut(hand, c - 1, n - 1)

\* actions that are not in the agent's hand: the out-of-range id NumCards and
\* the highest card ids the agent does not hold
BadActions == HighestOut(hands[0], NumCards, MaxBad)

SeedInputs == {<<>>} \cup {<<n>> : n \in 0 .. MaxSeed}

\* -------------------------------------------------------- specification
\* CardGameEnv(seed): a fresh generator in any state, no cards dealt
Init ==
  /\ rng \in 0 .. (RngMod - 1)
  /\ hands = [i \in Seats |-> <<>>]
  /\ tricks_won = [t \in Teams |-> 0]
  /\ tens_won = [t \in Teams |-> 0]
  /\ current_trick = <<>>
  /\ current_player = 0
  /\ done = FALSE
  /\ dealt = FALSE
  /\ rounds_played = 0
  /\ nsteps = 0
  /\ failures = {}
  /\ call = Ret("init", <<>>, "ok", 0, FALSE, <<>>, <<>>, <<>>)
  /\ twin = <<>>

Next ==
  \/ \E seed \in SeedInputs : Reset(seed) /\ UNCHANGED twin
  \/ \E action \in AgentCards \cup BadActions : Step(action) /\ UNCHANGED twin

Spec == Init /\ [][Next]_vars

\* ---- the card codec on its own: the module-level functions encode_card
\* ---- and decode_card applied to every id and every (rank, suit) pair

\* what a codec call was given and what it returned
CodecRet(op, arg, value) == [arg |-> arg, op |-> op, value |-> value]

\* decode_card(card_id)
DecodeCall(card_id) ==
  /\ call' = CodecRet("decode_card", <<card_id>>, decode_card(card_id))
  /\ UNCHANGED <<rng, envState, nsteps, failures, twin>>

\* encode_card(rank, suit)
EncodeCall(rank, suit) ==
  /\ call' = CodecRet("encode_card", <<rank, suit>>, <<encode_card(rank, suit)>>)
  /\ UNCHANGED <<rng, envState, nsteps, failures, twin>>

CodecInit ==
  /\ rng = 0
  /\ hands = [p \in Seats |-> <<>>]
  /\ tricks_won = [t \in Teams |-> 0]
  /\ tens_won = [t \in Teams |-> 0]
  /\ current_trick = <<>>
  /\ current_player = 0
  /\ done = FALSE
  /\ dealt = FALSE
  /\ rounds_played = 0
  /\ call = CodecRet("init", <<>>, <<>>)
  /\ nsteps = 0
  /\ failures = {}
  /\ twin = <<>>

CodecNext ==
  \/ \E card_id \in Cards : DecodeCall(card_id)
  \/ \E rank \in 0 .. NumRanks - 1, suit \in 0 .. NumSuits - 1 : EncodeCall(rank, suit)

CodecSpec == CodecInit /\ [][CodecNext]_vars

\* ---- two CardGameEnv objects driven by the same calls: every reset and
\* ---- every step is made on both, with the same argument

\* CardGameEnv(): the fields of a new object whose generator is in state r
Constructed(r) ==
  [current_player |-> 0, current_trick |-> <<>>, dealt |-> FALSE, done |-> FALSE,
   hands |-> [i \in Seats |-> <<>>], rng |-> r, rounds_played |-> 0,
   tens_won |-> [t \in Teams |-> 0], tricks_won |-> [t \in Teams |-> 0]]

\* reset(seed) on the second object; the two are in step from a seeded reset
\* on, until a reset without a seed
TwinReset(seed) ==
  LET res == ResetResult(twin.env, seed) IN
     twin' = [env |-> res.env, ret |-> res.ret, synced |-> seed # <<>>]

\* step(action) on the second object
TwinStep(action) ==
  \E res \in {StepResult(twin.env, action)} :
     twin' = [env |-> res.env, ret |-> res.ret, synced |-> twin.synced]

\* two new objects, the second one's generator one draw ahead of the first's
TwinInit ==
  /\ rng \in 0 .. (RngMod - 1)
  /\ hands = [i \in Seats |-> <<>>]
  /\ tricks_won = [t \in Teams |-> 0]
  /\ tens_won = [t \in Teams |-> 0]
  /\ current_trick = <<>>
  /\ current_player = 0
  /\ done = FALSE
  /\ dealt = FALSE
  /\ rounds_played = 0
  /\ nsteps = 0
  /\ failures = {}
  /\ call = Ret("init", <<>>, "ok", 0, FALSE, <<>>, <<>>, <<>>)
  /\ twin = [env |-> Constructed(RngNext(rng)), ret |-> call, synced |-> FALSE]

\* the seeds the two are reset with: the first reset may go without a seed,
\* which leaves the two with different deals; later resets give one
TwinSeeds == IF dealt THEN SeedInputs \ {<<>>} ELSE SeedInputs

TwinNext ==
  \/ \E seed \in TwinSeeds : Reset(seed) /\ TwinReset(seed)
  \/ \E action \in AgentCards \cup BadActions : Step(action) /\ TwinStep(action)

TwinSpec == TwinInit /\ [][TwinNext]_vars

\* ---- _play_card on its own: after a deal the seats play in turn, each any
\* ---- card of its hand, until the trick holds four plays

\* self._play_card(pid, card)
PlayCall(pid, card) ==
  LET st == PlayCard([current_player |-> current_player, hands |-> hands,
                      plays |-> current_trick[1].plays, trail |-> <<>>], pid, card)
  IN /\ hands' = st.hands
     /\ current_trick' = <<[current_trick[1] EXCEPT !.plays = st.plays]>>
     /\ current_player' = st.current_player
     /\ call' = Ret("_play_card", <<pid, card>>, "ok", 0, FALSE, <<>>, <<>>, st.trail)
     /\ UNCHANGED <<rng, tricks_won, tens_won, done, dealt, rounds_played,
                    nsteps, failures, twin>>

\* the state reset() leaves, for a generator in any state
PlayInit ==
  /\ \E s \in 0 .. (RngMod - 1) :
        /\ rng = DealFrom[s].rng
        /\ hands = DealFrom[s].hands
  /\ tricks_won = [t \in Teams |-> 0]
  /\ tens_won = [t \in Teams |-> 0]
  /\ current_trick = <<NewTrick>>
  /\ current_player = 0
  /\ done = FALSE
  /\ dealt = TRUE
  /\ rounds_played = 0
  /\ nsteps = 0
  /\ failures = {}
  /\ call = Ret("reset", <<>>, "ok", 0, FALSE, <<>>, <<>>, <<>>)
  /\ twin = <<>>

PlayNext ==
  \E card \in {hands[current_player][i] : i \in 1 .. Len(hands[current_player])} :
     /\ Len(current_trick[1].plays) < NumSeats
     /\ PlayCall(current_player, card)

PlaySpec == PlayInit /\ [][PlayNext]_vars

\* ================================================================ claims
\* the last call was a step that returned (and so resolved call.trick)
StepReturned(c) == c.op = "step" /\ c.result = "ok"

\* the seat of the first play of c whose rank is the largest of the trick
FirstMaxSeat(trick, seat) ==
  \E i \in 1 .. Len(trick) :
     /\ trick[i][1] = seat
     /\ \A m \in 1 .. Len(trick) : trick[m][2] % 13 <= trick[i][2] % 13
     /\ \A m \in 1 .. (i - 1) : trick[m][2] % 13 < trick[i][2] % 13

\* the team of the seat that takes the trick
TakingTeam(trick) == IF FirstMaxSeat(trick, 0) \/ FirstMaxSeat(trick, 2) THEN 0 ELSE 1

\* C1: done is false after each of the first 12 step calls that return after
\* a reset and true from the 13th on, and while done is true no step call
\* returns.
C1_Termination ==
  /\ [](nsteps <= 13 /\ (done <=> nsteps = 13))
  /\ [][(done /\ call'.op = "step") => call'.result # "ok"]_vars

\* a step call was refused after the 13th trick
C1_Witness ==
  done /\ nsteps = 13 /\ call.op = "step" /\ call.result = "EpisodeFinished"

\* C2: in every trick a step resolves, each of seats 1-3 played a card of
\* the suit of the trick's first card, or held no card of that suit when it
\* played (its hand before the step).
C2_FollowSuit ==
  [][StepReturned(call') =>
       \A i \in 2 .. Len(call'.trick) :
          LET s == call'.trick[i][1]
              lead == call'.trick[1][2] \div 13
          IN \/ call'.trick[i][2] \div 13 = lead
             \/ \A k \in 1 .. Len(hands[s]) : hands[s][k] \div 13 # lead]_vars

\* a resolved trick in which one seat followed suit and another discarded
C2_Witness ==
  /\ StepReturned(call)
  /\ Len(call.trick) = 4
  /\ \E i, k \in 2 .. 4 :
        /\ call.trick[i][2] \div 13 # call.trick[1][2] \div 13
        /\ call.trick[k][2] \div 13 = call.trick[1][2] \div 13

\* C3: the trick goes to the first play of the largest rank; the team of its
\* seat gains exactly one trick and the other team's count stays.
C3_TrickWinner ==
  [][StepReturned(call') =>
       /\ Len(call'.trick) = 4
       /\ LET team == TakingTeam(call'.trick)
          IN /\ tricks_won'[team] = tricks_won[team] + 1
             /\ tricks_won'[1 - team] = tricks_won[1 - team]]_vars

\* a resolved trick whose largest rank was played by both teams
C3_Witness ==
  /\ StepReturned(call)
  /\ \E i, k \in 1 .. Len(call.trick) :
        /\ i < k
        /\ call.trick[i][2] % 13 = call.trick[k][2] % 13
        /\ (call.trick[i][1] % 2) # (call.trick[k][1] % 2)
        /\ \A m \in 1 .. Len(call.trick) : call.trick[m][2] % 13 <= call.trick[i][2] % 13

\* C4: the team that takes the trick gains as many tens as the trick holds
\* (cards with card mod 13 = 8), whoever played them; the other team's tens
\* stay.
C4_TensAwarded ==
  [][StepReturned(call') =>
       LET team == TakingTeam(call'.trick)
           tens == Cardinality({i \in 1 .. Len(call'.trick) : call'.trick[i][2] % 13 = 8})
       IN /\ tens_won'[team] = tens_won[team] + tens
          /\ tens_won'[1 - team] = tens_won[1 - team]]_vars

\* a ten played by the team that lost the trick
C4_Witness ==
  /\ StepReturned(call)
  /\ Len(call.trick) = 4
  /\ \E i \in 1 .. 4 :
        /\ call.trick[i][2] % 13 = 8
        /\ (call.trick[i][1] % 2) # TakingTeam(call.trick)

\* C5: a step that returns pays +1 when team 0 took its trick and -1 when
\* team 1 did, and the two trick counts always add up to the rounds played.
C5_Reward ==
  /\ [](tricks_won[0] + tricks_won[1] = rounds_played)
  /\ [][StepReturned(call') =>
          \/ call'.reward = 1 /\ tricks_won'[0] = tricks_won[0] + 1
          \/ call'.reward = -1 /\ tricks_won'[1] = tricks_won[1] + 1]_vars

\* both rewards have been paid in one episode
C5_Witness ==
  /\ StepReturned(call)
  /\ call.reward = -1
  /\ tricks_won[0] > 0
  /\ rounds_played > 1

\* the cards of a list
CardSet(lst) == {lst[i] : i \in 1 .. Len(lst)}

\* C6: right after every reset each of the four hands holds 13 cards, no
\* card is in two hands, and together the hands hold the ids 0..51.
C6_DealPartition ==
  call.op = "reset" =>
     /\ \A p \in 0 .. 3 : Len(hands[p]) = 13 /\ Cardinality(CardSet(hands[p])) = 13
     /\ \A p, q \in 0 .. 3 : p # q => CardSet(hands[p]) \cap CardSet(hands[q]) = {}
     /\ UNION {CardSet(hands[p]) : p \in 0 .. 3} = 0 .. 51

\* a reset with a seed, and a reset without one
C6_Witness ==
  /\ call.op = "reset"
  /\ call.arg = <<1>>
  /\ Len(hands[0]) = 13

\* C7: a step call made while done is false with an action that is not in
\* seat 0's hand raises the invalid-action error and changes neither the
\* environment's fields nor the generator.
C7_InvalidAction ==
  [][(call'.op = "step" /\ ~done /\ call'.arg[1] \notin CardSet(hands[0])) =>
        /\ call'.result = "InvalidAction"
        /\ UNCHANGED <<envState, rng, nsteps>>]_vars

\* in the middle of an episode a card of another seat was refused
C7_Witness ==
  /\ call.op = "step"
  /\ call.result = "InvalidAction"
  /\ ~done
  /\ nsteps > 0
  /\ \E p \in 1 .. 3 : call.arg[1] \in CardSet(hands[p])

\* C8: a step call made while done is true raises the episode-finished
\* error whatever the action, and changes neither the environment's fields
\* nor the generator.
C8_EpisodeFinished ==
  [][(call'.op = "step" /\ done) =>
        /\ call'.result = "EpisodeFinished"
        /\ UNCHANGED <<envState, rng, nsteps>>]_vars

\* step was refused after the last trick
C8_Witness ==
  /\ done
  /\ call.op = "step"
  /\ call.result = "EpisodeFinished"
  /\ call.arg[1] \in 0 .. 51

\* C9 as stated: once a step call has raised either error, no step call
\* returns until reset.
C9_FailureIsFatal ==
  [][(failures # {} /\ call'.op = "step") => call'.result # "ok"]_vars

\* C9, amended: once a step call has raised the episode-finished error no
\* step call returns until reset; after an invalid-action error, and as long
\* as the episode is not over, a step call with a card of seat 0's hand
\* returns.
C9_OnlyFinishedIsFatal ==
  /\ [][("EpisodeFinished" \in failures /\ call'.op = "step") =>
          call'.result = "EpisodeFinished"]_vars
  /\ [][(/\ "InvalidAction" \in failures
         /\ nsteps < 13
         /\ call'.op = "step"
         /\ call'.arg[1] \in CardSet(hands[0])) => call'.result = "ok"]_vars

\* an episode with a refused action was played to its end, and step was
\* refused again after it
C9_Witness ==
  /\ failures = {"InvalidAction", "EpisodeFinished"}
  /\ done
  /\ nsteps = 13

\* C10: when done is true, 13 tricks and 4 tens have been shared out.
C10_FinalTotals ==
  done => /\ tricks_won[0] + tricks_won[1] = 13
          /\ tens_won[0] + tens_won[1] = 4

\* a finished episode in which both teams hold tens
C10_Witness ==
  /\ done
  /\ call.op = "step"
  /\ call.result = "ok"
  /\ tens_won[0] > 0
  /\ tens_won[1] > 0

\* C11: reset, called in any state, leaves done false, both score maps at
\* zero, the round counter at 0, current_player 0, an empty trick led by seat
\* 0 and 13 cards in every hand; the next step with a card of seat 0's hand
\* returns.
C11_ResetClean ==
  /\ [][call'.op = "reset" =>
          /\ done' = FALSE
          /\ tricks_won' = (0 :> 0 @@ 1 :> 0)
          /\ tens_won' = (0 :> 0 @@ 1 :> 0)
          /\ rounds_played' = 0
          /\ current_player' = 0
          /\ current_trick' = <<[leader |-> 0, plays |-> <<>>]>>
          /\ \A p \in 0 .. 3 : Len(hands'[p]) = 13]_vars
  /\ [][(call.op = "reset" /\ call'.op = "step"
         /\ call'.arg[1] \in CardSet(hands[0])) => call'.result = "ok"]_vars

\* a first trick was played right after a reset without a seed
C11_Witness ==
  /\ StepReturned(call)
  /\ nsteps = 1
  /\ rounds_played = 1
  /\ Len(hands[0]) = 12

\* C12: the observation a returning step hands back shows an empty current
\* trick, trick leader 0, current player 0, and as remaining_tricks the size
\* of seat 0's hand, which is 13 less the steps returned since the reset.
C12_ObsAfterStep ==
  StepReturned(call) =>
     /\ call.obs[1].current_trick = <<>>
     /\ call.obs[1].trick_leader = <<0>>
     /\ call.obs[1].current_player = 0
     /\ call.obs[1].remaining_tricks = Len(hands[0])
     /\ call.obs[1].remaining_tricks = 13 - nsteps

\* an observation in the middle of an episode
C12_Witness ==
  /\ StepReturned(call)
  /\ call.obs # <<>>
  /\ call.obs[1].remaining_tricks = 6
  /\ Len(call.obs[1].hand) = 6

\* C13: encoding what decode_card returned for an id of 0..51 gives the id
\* back, decoding what encode_card returned for a rank of 0..12 and a suit of
\* 0..3 gives the pair back, and each function lands in the other's domain,
\* so the two are inverse bijections between the ids and the pairs.
C13_CodecRoundTrip ==
  /\ [][(call.op = "decode_card" /\ call'.op = "encode_card"
         /\ call'.arg = call.value) => call'.value = call.arg]_vars
  /\ [][(call.op = "encode_card" /\ call'.op = "decode_card"
         /\ call'.arg = call.value) => call'.value = call.arg]_vars
  /\ [][call'.op = "decode_card" =>
           /\ call'.value[1] \in 0 .. 12
           /\ call'.value[2] \in 0 .. 3]_vars
  /\ [][call'.op = "encode_card" => call'.value[1] \in 0 .. 51]_vars

\* the last id, 51, came back from encoding the king of the last suit
C13_Witness ==
  /\ call.op = "encode_card"
  /\ call.arg = <<12, 3>>
  /\ call.value = <<51>>

\* C14: two environments that were reset with the same seed and have been
\* given the same actions since hold the same deal and the same state, and
\* their last calls returned the same recorded plays, observation, reward and
\* terminated flag, whatever each of them had done before that reset.
C14_SameSeedSameRun ==
  twin.synced => (twin.env = Env /\ twin.ret = call)

\* both objects have finished a whole episode in step
C14_Witness ==
  /\ twin.synced
  /\ StepReturned(call)
  /\ StepReturned(twin.ret)
  /\ twin.ret.terminated
  /\ twin.env.rounds_played = 13

\* C15: a step that returns takes exactly one card out of each of the four
\* hands and puts none in; after k such steps since the reset every hand
\* holds 13 - k cards, no card twice, and no card is in two hands.
C15_HandsShrink ==
  /\ [](dealt =>
          /\ \A p \in 0 .. 3 : Len(hands[p]) = 13 - nsteps
          /\ \A p \in 0 .. 3 : Cardinality(CardSet(hands[p])) = Len(hands[p])
          /\ \A p, q \in 0 .. 3 :
                p # q => CardSet(hands[p]) \cap CardSet(hands[q]) = {})
  /\ [][StepReturned(call') =>
           \A p \in 0 .. 3 :
              /\ Len(hands'[p]) = Len(hands[p]) - 1
              /\ CardSet(hands'[p]) \subseteq CardSet(hands[p])
              /\ Cardinality(CardSet(hands[p]) \ CardSet(hands'[p])) = 1]_vars

\* five tricks into an episode every hand holds eight cards
C15_Witness ==
  /\ StepReturned(call)
  /\ nsteps = 5
  /\ \A p \in 0 .. 3 : Len(hands[p]) = 8

\* C16: a _play_card(seat, card) call that is not the first play of the trick
\* and whose card is in the seat's hand appends exactly one play and takes
\* exactly the recorded card out of the seat's hand: the lowest lead-suit
\* card of the hand, the requested card staying in the hand, when the
\* requested card is off the lead suit and the hand holds a lead-suit card;
\* the requested card in every other case.
C16_PlayCardContract ==
  [][(call'.op = "_play_card" /\ current_trick[1].plays # <<>>) =>
       LET seat == call'.arg[1]
           card == call'.arg[2]
           before == current_trick[1].plays
           after == current_trick'[1].plays
           lead == before[1][2] \div 13
           follow == {c \in CardSet(hands[seat]) \ {card} : c \div 13 = lead}
           lowest == CHOOSE c \in follow : \A d \in follow : c % 13 <= d % 13
           recorded == after[Len(after)]
       IN /\ Len(after) = Len(before) + 1
          /\ SubSeq(after, 1, Len(before)) = before
          /\ IF card \div 13 # lead /\ follow # {}
             THEN recorded = <<seat, lowest>> /\ card \in CardSet(hands'[seat])
             ELSE recorded = <<seat, card>>
          /\ Len(hands'[seat]) = Len(hands[seat]) - 1
          /\ CardSet(hands'[seat]) = CardSet(hands[seat]) \ {recorded[2]}
          /\ \A p \in 0 .. 3 : p # seat => hands'[p] = hands[p]]_vars

\* a seat asked for an off-suit card while holding the lead suit, and another
\* card was recorded for it
C16_Witness ==
  /\ call.op = "_play_card"
  /\ Len(current_trick[1].plays) = 3
  /\ current_trick[1].plays[3][1] = 2
  /\ current_trick[1].plays[3][2] # call.arg[2]
  /\ call.arg[2] \in CardSet(hands[2])

\* the plays of a trick are by seats 0, 1, 2, ... in this order, four at most
InSeatOrder(plays) ==
  /\ Len(plays) <= 4
  /\ \A i \in 1 .. Len(plays) : plays[i][1] = i - 1

\* C17: whenever there is a current trick its leader is seat 0 and its plays
\* are at most four, by seats 0, 1, 2, 3 in this order and so by no seat
\* twice; this holds between calls, after every _play_card call inside step,
\* and of the trick a step resolves.
C17_TrickShape ==
  /\ current_trick # <<>> =>
        /\ current_trick[1].leader = 0
        /\ InSeatOrder(current_trick[1].plays)
  /\ call.op = "step" =>
        /\ InSeatOrder(call.trick)
        /\ \A i \in 1 .. Len(call.trail) :
              \A j \in 1 .. Len(call.trail[i].printed) :
                 /\ InSeatOrder(call.trail[i].printed[j])
                 /\ Len(call.trail[i].printed[j]) = i

\* inside a step the trick held three plays, then four
C17_Witness ==
  /\ StepReturned(call)
  /\ Len(call.trail) = 4
  /\ Len(call.trail[3].printed[1]) = 3
  /\ Len(call.trick) = 4
  /\ current_trick = <<[leader |-> 0, plays |-> <<>>]>>

\* C18: no step call, returning or raising, lowers tricks_won or tens_won of
\* either team; a counter goes down only in a reset, which leaves all four
\* at 0.
C18_CountersMonotone ==
  /\ [][call'.op = "step" =>
           \A t \in {0, 1} : /\ tricks_won'[t] >= tricks_won[t]
                             /\ tens_won'[t] >= tens_won[t]]_vars
  /\ [][(\E t \in {0, 1} : \/ tricks_won'[t] < tricks_won[t]
                           \/ tens_won'[t] < tens_won[t]) =>
           /\ call'.op = "reset"
           /\ \A t \in {0, 1} : tricks_won'[t] = 0 /\ tens_won'[t] = 0]_vars

\* a team that already held a ten took a trick with another ten in it
C18_Witness ==
  /\ StepReturned(call)
  /\ \E i \in 1 .. 4 : call.trick[i][2] % 13 = 8
  /\ \E t \in {0, 1} : tens_won[t] >= 2 /\ tricks_won[t] >= 2 /\ tricks_won[1 - t] >= 1
  /\ \E t \in {0, 1} :
        /\ FirstMaxSeat(call.trick, t) \/ FirstMaxSeat(call.trick, t + 2)
        /\ tens_won[t] > Cardinality({i \in 1 .. 4 : call.trick[i][2] % 13 = 8})

\* C19: in a step that returns, no _play_card call replaces the card it was
\* given: the trick is shown once per call, the card recorded for seat 0 is
\* the action submitted, and the card recorded for each of seats 1, 2, 3 is
\* the card step drew for that seat.
C19_NoCorrection ==
  StepReturned(call) =>
     /\ Len(call.trail) = 4
     /\ call.trick[1] = <<0, call.arg[1]>>
     /\ \A i \in 1 .. 4 :
           /\ Len(call.trail[i].printed) = 1
           /\ call.trail[i].pid = i - 1
           /\ call.trick[i] = <<call.trail[i].pid, call.trail[i].card>>

\* a seat without the lead suit was given an off-suit card, and it stood
C19_Witness ==
  /\ StepReturned(call)
  /\ call.trail[3].card \div 13 # call.trick[1][2] \div 13
  /\ call.trick[3] = <<2, call.trail[3].card>>

\* C20: on an environment that was never reset every step call raises the
\* invalid-action error, never the episode-finished one, and changes nothing:
\* the hands stay empty, done stays false, there is no current trick, and no
\* trick has been resolved.
C20_StepBeforeReset ==
  /\ [](~dealt =>
          /\ \A p \in 0 .. 3 : hands[p] = <<>>
          /\ done = FALSE
          /\ current_trick = <<>>
          /\ rounds_played = 0
          /\ nsteps = 0
          /\ tricks_won = (0 :> 0 @@ 1 :> 0)
          /\ tens_won = (0 :> 0 @@ 1 :> 0)
          /\ "EpisodeFinished" \notin failures
          /\ call.op = "step" => (call.result = "InvalidAction" /\ call.trick = <<>>))
  /\ [][(~dealt /\ call'.op = "step") =>
           /\ call'.result = "InvalidAction"
           /\ UNCHANGED <<rng, envState>>]_vars

\* a card id was submitted to an environment that was never reset
C20_Witness ==
  /\ ~dealt
  /\ call.op = "step"
  /\ call.arg = <<51>>
  /\ call.result = "InvalidAction"
  /\ failures = {"InvalidAction"}

====
